---- MODULE Spec2Model ----
(***************************************************************************)
(* A model of HandTrackingModule.HandDetector: the detector's cached       *)
(* detection result (self.results) and its three methods find_hands,       *)
(* find_position and find_distance.  The pose-estimation model             *)
(* (mediapipe Hands.process) and the drawing primitives (cv2.line,         *)
(* cv2.circle, mp_draw.draw_landmarks) are external: the first is a        *)
(* nondeterministic choice of zero to max_hands skeletons, the second a    *)
(* log of the requests a call issues.                                      *)
(*                                                                         *)
(* Python values are encoded as follows.  None / a value: the records      *)
(* None and Some(v).  An ndarray: a record with its shape (a tuple) and    *)
(* the overlays drawn on it so far (ink).  A normalized coordinate is the  *)
(* rational n / Den; mediapipe's coordinates are float32 values, so their  *)
(* product with a frame dimension is exact in double precision and int()   *)
(* of it is the truncation of the exact product.  math.sqrt is correctly   *)
(* rounded; a distance is kept in units of 1 / SqrtScale, rounded to the   *)
(* nearest unit.                                                           *)
(***************************************************************************)
EXTENDS Integers, Sequences, FiniteSets, TLC

VARIABLES
    results,     \* self.results: the attribute may not exist yet
    before,      \* self.results as the last call found it
    op,          \* the method the last call ran
    args,        \* the arguments of the last call
    ret,         \* what the last call returned (when it raised nothing)
    err,         \* the exception the last call raised, "" when none
    draws,       \* the drawing requests the last call issued, in order
    process_calls, \* the last call's uses of hands.process: image given, output
    last_frame,  \* the frame of the last find_hands of this detector that passed the check
    peer,        \* self.results of a second HandDetector instance
    peer_before  \* the second instance's self.results as the last call found it

vars == <<results, before, op, args, ret, err, draws, process_calls, last_frame, peer, peer_before>>

\* ------------------------------------------------------------- bounds

\* Normalized coordinates are the rationals 0/Den .. Den/Den.
Den == 4

\* find_position is called with hand_number in -MaxHandNumber .. MaxHandNumber.
MaxHandNumber == 3

\* A distance is kept in units of 1/SqrtScale.
SqrtScale == 16

\* ---------------------------------------------------- program constants

\* The default of HandDetector's max_hands parameter.
max_hands == 2

\* The number of landmarks of one mediapipe hand skeleton.
NumLandmarks == 21

\* ------------------------------------------------------ Python values

None == [some |-> FALSE]

Some(v) == [some |-> TRUE, val |-> v]

\* Python's truth value of an optional list: None and [] are false.
Truthy(o) == o.some /\ Len(o.val) > 0

\* Python's list[k] on a 0-indexed list held as a TLA+ sequence: a negative
\* k counts from the end, and an index outside -len .. len-1 is an IndexError.
IndexInRange(list, k) == -Len(list) <= k /\ k < Len(list)

PyIndex(list, k) == IF k < 0 THEN list[Len(list) + k + 1] ELSE list[k + 1]

\* A variant of PyInt that rounds to the nearest integer, as round() would.
PyIntRound(n, d) == (2 * n + d) \div (2 * d)

\* Python's int() of the exact quotient n / d: truncation toward zero.
PyInt(n, d) == IF n >= 0 THEN n \div d ELSE -((-n) \div d)

\* ------------------------------------------------------------ frames

\* An ndarray of the given shape with nothing drawn on it.
Array(shape) == [some |-> TRUE, shape |-> shape, colour |-> "BGR", ink |-> <<>>]

\* The well-formed frames: (height, width, 3).
ValidShapes == { <<480, 640, 3>>, <<100, 200, 3>>, <<3, 5, 3>> }

\* Arrays find_hands rejects: 2-D, and 3-D with 1 or 4 channels.
InvalidShapes == { <<480, 640>>, <<480, 640, 1>>, <<3, 5, 4>> }

ValidFrames == { Array(s) : s \in ValidShapes }

InvalidFrames == { Array(s) : s \in InvalidShapes }

Frames == {None} \cup ValidFrames \cup InvalidFrames

\* The frame with the requests ds drawn on it, in place.
Drawn(image, ds) == [image EXCEPT !.ink = @ \o ds]

\* ------------------------------------------------ pose-estimation model

\* One skeleton: landmark i |-> <<x, y>>, numerators over Den.
Hand(a, b) == [i \in 0 .. NumLandmarks - 1 |-> <<(a + i) % (Den + 1), (b + i) % (Den + 1)>>]

\* Two skeletons: one through (0,0), (1/2,1/2) and (1,1), one with x # y throughout.
HandSet == { Hand(0, 0), Hand(2, 0) }

RECURSIVE HandLists(_)
HandLists(n) ==
    IF n = 0 THEN { <<>> }
    ELSE HandLists(n - 1) \cup
         { Append(l, h) : l \in { m \in HandLists(n - 1) : Len(m) = n - 1 }, h \in HandSet }

\* What hands.process can return for multi_hand_landmarks: None when no hand
\* is found, else a list of 1 .. max_hands skeletons in detection order.
Detections == {None} \cup { Some(l) : l \in HandLists(max_hands) \ { <<>> } }

Results(mhl) == [exists |-> TRUE, multi_hand_landmarks |-> mhl]

NoResults == [exists |-> FALSE, multi_hand_landmarks |-> None]

\* ---------------------------------------------------------- call record

NoArgs == [image |-> None, draw |-> FALSE, hand_number |-> 0, point1 |-> <<>>, point2 |-> <<>>]

NoRet == [image |-> None, landmark_list |-> <<>>, distance |-> 0, coords |-> <<>>]

Init ==
    /\ results = NoResults
    /\ before = NoResults
    /\ op = "init"
    /\ args = NoArgs
    /\ ret = NoRet
    /\ err = ""
    /\ draws = <<>>
    /\ process_calls = <<>>
    /\ last_frame = None
    /\ peer = NoResults
    /\ peer_before = NoResults

\* ------------------------------------------------------------ find_hands

\* cv2.cvtColor(image, cv2.COLOR_BGR2RGB): a new array, the argument untouched.
CvtColorBGR2RGB(image) == [image EXCEPT !.colour = "RGB", !.ink = <<>>]

\* A variant of FindHandsError without the len(image.shape) != 3 test: the
\* shape[2] of a 2-D array is then an IndexError.
FindHandsErrorNoNdim(image) ==
    IF ~image.some THEN "ValueError: Image cannot be None"
    ELSE IF Len(image.shape) < 3 THEN "IndexError: tuple index out of range"
    ELSE IF image.shape[3] # 3 THEN "ValueError: Image must be a 3-channel BGR image"
    ELSE ""

\* A variant of FindHandsError that reads the channel count from shape[1].
FindHandsErrorWrongAxis(image) ==
    IF ~image.some THEN "ValueError: Image cannot be None"
    ELSE IF Len(image.shape) # 3 \/ image.shape[2] # 3
         THEN "ValueError: Image must be a 3-channel BGR image"
         ELSE ""

\* The check of lines 61-65: "" when the image passes.
FindHandsError(image) ==
    IF ~image.some THEN "ValueError: Image cannot be None"
    ELSE IF Len(image.shape) # 3 \/ image.shape[3] # 3
         THEN "ValueError: Image must be a 3-channel BGR image"
         ELSE ""

\* A variant of FindHandsDraws without the if draw of line 74.
FindHandsDrawsIgnoreFlag(mhl, draw) ==
    IF Truthy(mhl)
    THEN [k \in 1 .. Len(mhl.val) |-> [fn |-> "draw_landmarks", hand |-> mhl.val[k], at |-> k - 1]]
    ELSE <<>>

\* The requests of lines 72-77: one draw_landmarks per hand, in list order.
FindHandsDraws(mhl, draw) ==
    IF Truthy(mhl) /\ draw
    THEN [k \in 1 .. Len(mhl.val) |-> [fn |-> "draw_landmarks", hand |-> mhl.val[k], at |-> k - 1]]
    ELSE <<>>

\* A variant of Cache that keeps the old result when no hand is found.
CacheKeepIfEmpty(old, detected) == IF Truthy(detected) THEN Results(detected) ELSE old

\* Line 69, self.results = self.hands.process(image_rgb): the new value of
\* self.results, whatever the old one was.
Cache(old, detected) == Results(detected)

\* A variant of FindHandsCache that assigns self.results before the checks.
FindHandsCacheBeforeCheck(old, image, detected) == Cache(old, detected)

\* Lines 61-69: self.results after a find_hands call; the checks come first,
\* and a rejected call assigns nothing.
FindHandsCache(old, image, detected) ==
    IF FindHandsError(image) # "" THEN old ELSE Cache(old, detected)

\* A variant of OtherDetector for results kept as a class attribute, which an
\* assignment through one instance changes for all.
SharedAttribute(own, assigned) == assigned

\* Line 69 assigns the attribute of self: the results attribute of every
\* other HandDetector stays as it was, whatever is assigned.
OtherDetector(own, assigned) == own

\* What a find_hands call does apart from the cache: the record of the call.
FindHandsCall(image, draw, detected) ==
    /\ args' = [NoArgs EXCEPT !.image = image, !.draw = draw]
    /\ IF FindHandsError(image) # ""
       THEN /\ err' = FindHandsError(image)
            /\ ret' = NoRet
            /\ draws' = <<>>
            /\ process_calls' = <<>>
       ELSE /\ err' = ""
            /\ process_calls' = << [image |-> CvtColorBGR2RGB(image), output |-> detected] >>
            /\ draws' = FindHandsDraws(detected, draw)
            /\ ret' = [NoRet EXCEPT !.image = Drawn(image, FindHandsDraws(detected, draw))]

FindHands(image, draw, detected) ==
    /\ op' = "find_hands"
    /\ before' = results
    /\ peer_before' = peer
    /\ FindHandsCall(image, draw, detected)
    /\ results' = FindHandsCache(results, image, detected)
    /\ peer' = OtherDetector(peer, FindHandsCache(results, image, detected))
    /\ last_frame' = IF FindHandsError(image) # "" THEN last_frame ELSE image

find_hands == \E image \in Frames, draw \in BOOLEAN, detected \in Detections :
    FindHands(image, draw, detected)

\* --------------------------------------------------------- find_position

\* Lines 96 and 100: the two early returns of an empty list.
FindPositionEmpty(res, hand_number) ==
    \/ ~res.exists
    \/ ~Truthy(res.multi_hand_landmarks)
    \/ hand_number >= Len(res.multi_hand_landmarks.val)

\* Line 108, height, width, channels = image.shape: "" when it unpacks.
ShapeUnpackError(image) ==
    IF ~image.some THEN "AttributeError: 'NoneType' object has no attribute 'shape'"
    ELSE IF Len(image.shape) # 3 THEN "ValueError: unpack image.shape"
         ELSE ""

\* A variant of PixelPoint that scales by a fixed 640 x 480 capture size
\* instead of the shape of the image it is given.
PixelPointFixedSize(landmark_id, landmark, image) ==
    << landmark_id, PyInt(landmark[1] * 640, Den), PyInt(landmark[2] * 480, Den) >>

\* Lines 110-113: one [landmark_id, center_x, center_y] entry.
PixelPoint(landmark_id, landmark, image) ==
    << landmark_id,
       PyInt(landmark[1] * image.shape[2], Den),
       PyInt(landmark[2] * image.shape[1], Den) >>

\* A variant of LandmarkList that numbers the entries from 1.
LandmarkListFromOne(hand_landmarks, image) ==
    [k \in 1 .. NumLandmarks |-> PixelPoint(k, hand_landmarks[k - 1], image)]

\* Lines 107-113: the list built from one skeleton, in landmark order.
LandmarkList(hand_landmarks, image) ==
    [k \in 1 .. NumLandmarks |-> PixelPoint(k - 1, hand_landmarks[k - 1], image)]

\* Line 117: one filled circle per entry, as the entries are produced.
FindPositionDraws(landmark_list, draw) ==
    IF draw
    THEN [k \in 1 .. Len(landmark_list) |->
            [fn |-> "circle", center |-> <<landmark_list[k][2], landmark_list[k][3]>>, radius |-> 7]]
    ELSE <<>>

\* A variant of FindPositionError without the hasattr(self, 'results') test.
FindPositionErrorNoHasattr(res, image, hand_number) ==
    IF ~res.exists THEN "AttributeError: 'HandDetector' object has no attribute 'results'"
    ELSE IF FindPositionEmpty(res, hand_number) THEN ""
    ELSE IF ~IndexInRange(res.multi_hand_landmarks.val, hand_number)
         THEN "IndexError: list index out of range"
         ELSE ShapeUnpackError(image)

\* The exception of a find_position call, "" when it returns.
FindPositionError(res, image, hand_number) ==
    IF FindPositionEmpty(res, hand_number) THEN ""
    ELSE IF ~IndexInRange(res.multi_hand_landmarks.val, hand_number)
         THEN "IndexError: list index out of range"
         ELSE ShapeUnpackError(image)

\* The list a find_position call returns, when it returns.
FindPositionResult(res, image, hand_number) ==
    IF FindPositionEmpty(res, hand_number) THEN <<>>
    ELSE LandmarkList(PyIndex(res.multi_hand_landmarks.val, hand_number), image)

\* A variant of FindPositionReturn with the append of line 113 under the
\* if draw of line 116.
FindPositionReturnIfDrawn(res, image, hand_number, draw) ==
    IF draw THEN FindPositionResult(res, image, hand_number) ELSE <<>>

\* Line 119: the list is returned whatever draw is; draw only decides the
\* circles of lines 116-117.
FindPositionReturn(res, image, hand_number, draw) == FindPositionResult(res, image, hand_number)

\* A variant of CacheAfterFindPosition that forgets the result once read.
CacheConsumed(old) == NoResults

\* Lines 93-119 assign nothing to self.results.
CacheAfterFindPosition(old) == old

\* What a find_position call on a detector whose cache is res does apart
\* from the cache: the record of the call.
FindPositionCall(res, image, hand_number, draw) ==
    /\ args' = [NoArgs EXCEPT !.image = image, !.hand_number = hand_number, !.draw = draw]
    /\ process_calls' = <<>>
    /\ err' = FindPositionError(res, image, hand_number)
    /\ IF FindPositionError(res, image, hand_number) # ""
       THEN /\ ret' = NoRet
            /\ draws' = <<>>
       ELSE /\ ret' = [NoRet EXCEPT
                         !.landmark_list = FindPositionReturn(res, image, hand_number, draw)]
            /\ draws' = FindPositionDraws(FindPositionReturn(res, image, hand_number, draw), draw)

FindPosition(image, hand_number, draw) ==
    /\ op' = "find_position"
    /\ before' = results
    /\ peer_before' = peer
    /\ FindPositionCall(results, image, hand_number, draw)
    /\ results' = CacheAfterFindPosition(results)
    /\ UNCHANGED <<peer, last_frame>>

find_position ==
    \E image \in Frames, hand_number \in -MaxHandNumber .. MaxHandNumber, draw \in BOOLEAN :
        FindPosition(image, hand_number, draw)

\* --------------------------------------------------------- find_distance

\* A variant of PointXY that takes elements 0 and 1 whatever the length.
PointXYIgnoreLength(point) == <<point[1], point[2]>>

\* Lines 135-143: the coordinates taken from one point, by its length.
PointXY(point) ==
    IF Len(point) = 3 THEN <<point[2], point[3]>> ELSE <<point[1], point[2]>>

\* point[0], point[1] of a point shorter than 2 is an IndexError.
PointError(point) ==
    IF Len(point) # 3 /\ Len(point) < 2 THEN "IndexError: list index out of range" ELSE ""

\* The integer r in lo .. hi with r * r <= m < (r + 1) * (r + 1), by bisection.
RECURSIVE ISqrtIn(_, _, _)
ISqrtIn(m, lo, hi) ==
    IF lo = hi THEN lo
    ELSE LET mid == (lo + hi + 1) \div 2
         IN  IF mid * mid <= m THEN ISqrtIn(m, mid, hi) ELSE ISqrtIn(m, lo, mid - 1)

\* math.sqrt(n), correctly rounded, in units of 1/SqrtScale.
MathSqrt(n) ==
    LET m == n * SqrtScale * SqrtScale
        r == ISqrtIn(m, 0, m)
    IN  IF m - r * r > r THEN r + 1 ELSE r

\* A variant of Distance with x2 + x1 for x2 - x1.
DistanceSignSlip(x1, y1, x2, y2) == MathSqrt((x2 + x1) * (x2 + x1) + (y2 - y1) * (y2 - y1))

\* A variant of Distance with y2 - x1 for y2 - y1.
DistanceTypo(x1, y1, x2, y2) == MathSqrt((x2 - x1) * (x2 - x1) + (y2 - x1) * (y2 - x1))

\* Line 146.
Distance(x1, y1, x2, y2) == MathSqrt((x2 - x1) * (x2 - x1) + (y2 - y1) * (y2 - y1))

\* A variant of FindDistanceDraws without the draw test of line 149.
FindDistanceDrawsIgnoreFlag(x1, y1, x2, y2, image, draw) ==
    IF image.some
    THEN << [fn |-> "line", from |-> <<x1, y1>>, to |-> <<x2, y2>>, thickness |-> 3],
            [fn |-> "circle", center |-> <<x1, y1>>, radius |-> 5],
            [fn |-> "circle", center |-> <<x2, y2>>, radius |-> 5] >>
    ELSE <<>>

\* Lines 149-152: a line and two filled circles, when asked and given a frame.
FindDistanceDraws(x1, y1, x2, y2, image, draw) ==
    IF draw /\ image.some
    THEN << [fn |-> "line", from |-> <<x1, y1>>, to |-> <<x2, y2>>, thickness |-> 3],
            [fn |-> "circle", center |-> <<x1, y1>>, radius |-> 5],
            [fn |-> "circle", center |-> <<x2, y2>>, radius |-> 5] >>
    ELSE <<>>

\* The exception of a find_distance call, "" when it returns.
FindDistanceError(point1, point2) ==
    IF PointError(point1) # "" THEN PointError(point1) ELSE PointError(point2)

\* A variant of FindDistanceResult that returns the image only when it drew
\* on it, and None otherwise.
FindDistanceResultImageIfDrawn(point1, point2, image, draw) ==
    LET p == PointXY(point1)
        q == PointXY(point2)
    IN  [NoRet EXCEPT
           !.distance = Distance(p[1], p[2], q[1], q[2]),
           !.image = IF image.some /\ draw
                     THEN Drawn(image, FindDistanceDraws(p[1], p[2], q[1], q[2], image, draw))
                     ELSE None,
           !.coords = <<p[1], p[2], q[1], q[2]>>]

\* Line 154: (distance, image, [x1, y1, x2, y2]).
FindDistanceResult(point1, point2, image, draw) ==
    LET p == PointXY(point1)
        q == PointXY(point2)
    IN  [NoRet EXCEPT
           !.distance = Distance(p[1], p[2], q[1], q[2]),
           !.image = IF image.some
                     THEN Drawn(image, FindDistanceDraws(p[1], p[2], q[1], q[2], image, draw))
                     ELSE image,
           !.coords = <<p[1], p[2], q[1], q[2]>>]

\* A variant of CacheAfterFindDistance that drops the cached result.
CacheDropped(old) == NoResults

\* Lines 134-154 assign nothing to self.results.
CacheAfterFindDistance(old) == old

FindDistance(point1, point2, image, draw) ==
    /\ op' = "find_distance"
    /\ before' = results
    /\ peer_before' = peer
    /\ args' = [NoArgs EXCEPT !.point1 = point1, !.point2 = point2, !.image = image, !.draw = draw]
    /\ process_calls' = <<>>
    /\ results' = CacheAfterFindDistance(results)
    /\ UNCHANGED <<peer, last_frame>>
    /\ err' = FindDistanceError(point1, point2)
    /\ IF FindDistanceError(point1, point2) # ""
       THEN /\ ret' = NoRet
            /\ draws' = <<>>
       ELSE /\ ret' = FindDistanceResult(point1, point2, image, draw)
            /\ draws' = LET c == FindDistanceResult(point1, point2, image, draw).coords
                        IN  FindDistanceDraws(c[1], c[2], c[3], c[4], image, draw)

\* The coordinate pairs, the identifiers and the points of the calls.
XYs == { <<0, 0>>, <<3, 4>>, <<-3, 0>>, <<5, 12>> }

Ids == { 4, 8 }

PlainPoints == XYs

IdentifiedPoints == { <<id>> \o xy : id \in Ids, xy \in XYs }

\* Points of a length other than 2 or 3.
MalformedPoints == { <<>>, <<3>>, <<8, 3, 4, 0>> }

Points == PlainPoints \cup IdentifiedPoints \cup MalformedPoints

\* The points of the calls made between detections.
DetectorPoints == { <<0, 0>>, <<3, 4>>, <<4, 3, 4>>, <<8, -3, 0>>, <<3>> }

DistanceFrames == { None, Array(<<480, 640, 3>>) }

FindDistanceOver(points) ==
    \E point1 \in points, point2 \in points, image \in DistanceFrames, draw \in BOOLEAN :
        FindDistance(point1, point2, image, draw)

find_distance == FindDistanceOver(DetectorPoints)

\* ------------------------------------------------------- specifications

\* One detector, its three methods called in any order with any arguments.
Next == find_hands \/ find_position \/ find_distance

Spec == Init /\ [][Next]_vars

\* find_distance alone, over every pair of Points.
distance_query == FindDistanceOver(Points)

DistanceSpec == Init /\ [][distance_query]_vars

\* ------------------------------------------------------- two detectors

\* find_hands called on the second instance: the same method, its self the
\* second detector.
PeerFindHands(image, draw, detected) ==
    /\ op' = "peer.find_hands"
    /\ before' = results
    /\ peer_before' = peer
    /\ FindHandsCall(image, draw, detected)
    /\ peer' = FindHandsCache(peer, image, detected)
    /\ results' = OtherDetector(results, FindHandsCache(peer, image, detected))
    /\ UNCHANGED last_frame

\* find_position called on the second instance.
PeerFindPosition(image, hand_number, draw) ==
    /\ op' = "peer.find_position"
    /\ before' = results
    /\ peer_before' = peer
    /\ FindPositionCall(peer, image, hand_number, draw)
    /\ peer' = CacheAfterFindPosition(peer)
    /\ UNCHANGED <<results, last_frame>>

\* The frames and hand numbers of the calls on the two detectors.
PairFrames == { None, Array(<<3, 5, 3>>) }

PairHandNumbers == 0 .. max_hands - 1

first_find_hands == \E image \in PairFrames, draw \in BOOLEAN, detected \in Detections :
    FindHands(image, draw, detected)

first_find_position == \E image \in PairFrames, hand_number \in PairHandNumbers, draw \in BOOLEAN :
    FindPosition(image, hand_number, draw)

peer_find_hands == \E image \in PairFrames, draw \in BOOLEAN, detected \in Detections :
    PeerFindHands(image, draw, detected)

peer_find_position == \E image \in PairFrames, hand_number \in PairHandNumbers, draw \in BOOLEAN :
    PeerFindPosition(image, hand_number, draw)

\* Two detectors, the calls on them interleaved in any order.
PairNext == first_find_hands \/ first_find_position \/ peer_find_hands \/ peer_find_position

PairSpec == Init /\ [][PairNext]_vars

\* ------------------------------------------------------------ properties

\* The number of hands of a cached result: 0 when there is none.
NumHands(res) ==
    IF res.exists /\ res.multi_hand_landmarks.some THEN Len(res.multi_hand_landmarks.val) ELSE 0

Returned(name) == op = name /\ err = ""

\* C1: on a detector whose results attribute was never set, find_position
\* returns an empty list and raises nothing, for every hand_number, every
\* draw value and every image.
C1_EmptyBeforeDetection ==
    (op = "find_position" /\ ~results.exists) => (err = "" /\ ret.landmark_list = <<>>)

C1_Witness ==
    /\ op = "find_position"
    /\ ~results.exists
    /\ args.hand_number < 0
    /\ args.draw
    /\ ~args.image.some
    /\ ret.landmark_list = <<>>

\* C2: for every hand_number outside 0 .. NumHands - 1 of the cached result,
\* negative ones included, find_position returns an empty list and raises
\* nothing.
C2_OutOfRangeIsEmpty ==
    (op = "find_position" /\ ~(0 <= args.hand_number /\ args.hand_number < NumHands(results)))
        => (err = "" /\ ret.landmark_list = <<>>)

\* C3: a list returned by find_position has length 0 or 21, and its entry at
\* position i is a 3-element point whose element 0 is i.
C3_LengthAndIds ==
    Returned("find_position") =>
        /\ Len(ret.landmark_list) \in {0, 21}
        /\ \A k \in 1 .. Len(ret.landmark_list) :
              /\ Len(ret.landmark_list[k]) = 3
              /\ ret.landmark_list[k][1] = k - 1

C3_Witness ==
    /\ Returned("find_position")
    /\ Len(ret.landmark_list) = 21
    /\ ret.landmark_list[21][1] = 20

\* floor(num / Den * dimension), the pixel coordinate of the specification.
FloorPixel(num, dimension) == (num * dimension) \div Den

\* C4: for a hand_number h in 0 .. NumHands - 1, entry i of the returned list
\* is (i, floor(x * width), floor(y * height)) for landmark i = (x, y) of the
\* h-th hand of the cached result, width and height being those of the image
\* given to find_position; 0 maps to 0, 1 to the full dimension and 1/2 of
\* 640 x 480 to (320, 240).
C4_PixelPoints ==
    (Returned("find_position") /\ 0 <= args.hand_number /\ args.hand_number < NumHands(results)) =>
        LET hand   == results.multi_hand_landmarks.val[args.hand_number + 1]
            height == args.image.shape[1]
            width  == args.image.shape[2]
            list   == ret.landmark_list
        IN  /\ Len(list) = 21
            /\ \A i \in 0 .. 20 :
                  /\ list[i + 1] = <<i, FloorPixel(hand[i][1], width), FloorPixel(hand[i][2], height)>>
                  /\ hand[i][1] = 0 => list[i + 1][2] = 0
                  /\ hand[i][2] = Den => list[i + 1][3] = height
                  /\ (2 * hand[i][1] = Den /\ 2 * hand[i][2] = Den /\ width = 640 /\ height = 480)
                        => (list[i + 1][2] = 320 /\ list[i + 1][3] = 240)

\* The second of two different hands is asked for, on a 5 x 3 frame where the
\* product of one of its landmarks with the width has a fraction of 1/2 or more.
C4_Witness ==
    /\ Returned("find_position")
    /\ args.hand_number = 1
    /\ NumHands(results) = 2
    /\ results.multi_hand_landmarks.val[1] # results.multi_hand_landmarks.val[2]
    /\ args.image.shape = <<3, 5, 3>>
    /\ \E i \in 0 .. 20 :
          LET x == results.multi_hand_landmarks.val[2][i][1]
          IN  /\ 2 * ((x * 5) % Den) >= Den
              /\ ret.landmark_list[i + 1][2] = (x * 5) \div Den

\* C5: a find_hands call that passes the frame check leaves in the cache
\* exactly what hands.process returned for that call, whatever was cached
\* before; find_position and find_distance leave the cache alone; and with a
\* cached result of zero hands find_position returns an empty list.
C5_CacheIsLatestDetection ==
    /\ Returned("find_hands") =>
          /\ Len(process_calls) = 1
          /\ results = Results(process_calls[1].output)
    /\ op \in {"find_position", "find_distance"} => results = before
    /\ (op = "find_position" /\ results.exists /\ NumHands(results) = 0) =>
          (err = "" /\ ret.landmark_list = <<>>)

\* A detection of zero hands has just replaced one that had found hands.
C5_Witness ==
    /\ Returned("find_hands")
    /\ NumHands(before) > 0
    /\ NumHands(results) = 0
    /\ results.exists

\* C6: find_hands given None raises the ValueError of the null frame; given
\* an array that is not 3-dimensional with 3 channels it raises the
\* ValueError of the channel count.
C6_InvalidFrameRejected ==
    op = "find_hands" =>
        /\ ~args.image.some => err = "ValueError: Image cannot be None"
        /\ (args.image.some /\ ~(Len(args.image.shape) = 3 /\ args.image.shape[3] = 3))
              => err = "ValueError: Image must be a 3-channel BGR image"

C6_Witness ==
    /\ op = "find_hands"
    /\ args.image.some
    /\ Len(args.image.shape) = 2
    /\ err = "ValueError: Image must be a 3-channel BGR image"

WellFormed(point) == Len(point) \in {2, 3}

\* C7: find_distance given a point whose length is neither 2 nor 3 raises an
\* error and returns no distance and no coordinate list.
C7_MalformedPointRejected ==
    (op = "find_distance" /\ ~(WellFormed(args.point1) /\ WellFormed(args.point2)))
        => (err # "" /\ ret = NoRet)

\* The [x, y] form of a well-formed point: the identifier dropped.
Plain(point) == IF Len(point) = 3 THEN <<point[2], point[3]>> ELSE point

\* C8: each point gives its coordinates by its own length, elements 1 and 2
\* of a 3-element point and elements 0 and 1 of a 2-element point; the
\* coordinate list is [x1, y1, x2, y2]; and the distance and the coordinate
\* list are those of the [x, y] forms and of the [id, x, y] forms of the two
\* points, for every identifier and every mix of the two forms.
C8_CoordinateExtraction ==
    (Returned("find_distance") /\ WellFormed(args.point1) /\ WellFormed(args.point2)) =>
        LET xy1 == Plain(args.point1)
            xy2 == Plain(args.point2)
            Same(p, q) ==
                LET r == FindDistanceResult(p, q, args.image, args.draw)
                IN  r.distance = ret.distance /\ r.coords = ret.coords
        IN  /\ ret.coords = <<xy1[1], xy1[2], xy2[1], xy2[2]>>
            /\ Same(xy1, xy2)
            /\ \A id1 \in Ids \cup {0, -1}, id2 \in Ids \cup {0, -1} :
                  /\ Same(<<id1>> \o xy1, <<id2>> \o xy2)
                  /\ Same(<<id1>> \o xy1, xy2)
                  /\ Same(xy1, <<id2>> \o xy2)

\* A 3-element point against a 2-element point, the identifier different
\* from both of its coordinates.
C8_Witness ==
    /\ Returned("find_distance")
    /\ args.point1 = <<4, -3, 0>>
    /\ args.point2 = <<3, 4>>
    /\ ret.coords = <<-3, 0, 3, 4>>

\* C9: the distance returned is sqrt((x2-x1)^2 + (y2-y1)^2): it is not
\* negative, it is the value nearest to the square root that the unit
\* 1/SqrtScale allows (its square equals the sum of squares up to that
\* rounding), and it is exact when the sum is a perfect square: 5 for
\* [0,0],[3,4] and 13 for [0,0],[5,12].
C9_EuclideanDistance ==
    Returned("find_distance") =>
        LET dx == ret.coords[3] - ret.coords[1]
            dy == ret.coords[4] - ret.coords[2]
            n  == dx * dx + dy * dy
            d  == ret.distance
        IN  /\ d >= 0
            /\ (2 * d + 1) * (2 * d + 1) > 4 * n * SqrtScale * SqrtScale
            /\ d > 0 => (2 * d - 1) * (2 * d - 1) < 4 * n * SqrtScale * SqrtScale
            /\ \A k \in 0 .. 20 : n = k * k => d = k * SqrtScale
            /\ ret.coords = <<0, 0, 3, 4>> => d = 5 * SqrtScale
            /\ ret.coords = <<0, 0, 5, 12>> => d = 13 * SqrtScale

\* A negative coordinate and a sum of squares, 52, that is no perfect square.
C9_Witness ==
    /\ Returned("find_distance")
    /\ ret.coords = <<-3, 0, 3, 4>>
    /\ ret.distance * ret.distance # 52 * SqrtScale * SqrtScale

\* C10: for well-formed points P and Q, find_distance(P, Q) and
\* find_distance(Q, P) return the same distance, with the two coordinate
\* pairs exchanged, and find_distance(P, P) returns distance 0.
C10_SymmetryAndIdentity ==
    (Returned("find_distance") /\ WellFormed(args.point1) /\ WellFormed(args.point2)) =>
        LET swapped == FindDistanceResult(args.point2, args.point1, args.image, args.draw)
        IN  /\ swapped.distance = ret.distance
            /\ swapped.coords = <<ret.coords[3], ret.coords[4], ret.coords[1], ret.coords[2]>>
            /\ args.point1 = args.point2 => ret.distance = 0

C10_Witness ==
    /\ Returned("find_distance")
    /\ args.point1 = <<3, 4>>
    /\ args.point2 = <<8, -3, 0>>
    /\ ret.distance > 0

\* C11: the image find_distance returns mirrors the image it was given,
\* for both draw values: None for None, and for a frame that same frame, of
\* the same shape, carrying what the call drew on it and nothing else.
C11_ImageMirrored ==
    Returned("find_distance") =>
        /\ ret.image.some = args.image.some
        /\ args.image.some =>
              /\ ret.image.shape = args.image.shape
              /\ ret.image.colour = args.image.colour
              /\ ret.image.ink = args.image.ink \o draws

\* A frame is given and no drawing is asked for.
C11_Witness ==
    /\ Returned("find_distance")
    /\ args.image.some
    /\ ~args.draw
    /\ ret.image = args.image

\* C12: for well-formed points find_distance raises nothing and issues
\* drawing requests exactly when draw is true and a frame is given: one line
\* from (x1, y1) to (x2, y2), then one filled circle at each of the two
\* points; otherwise none.  The distance and the coordinate list are the same
\* for every draw value and every image.
C12_DrawRequests ==
    (op = "find_distance" /\ WellFormed(args.point1) /\ WellFormed(args.point2)) =>
        LET c == ret.coords
        IN  /\ err = ""
            /\ (args.draw /\ args.image.some) =>
                  /\ Len(draws) = 3
                  /\ draws[1].fn = "line"
                  /\ draws[1].from = <<c[1], c[2]>>
                  /\ draws[1].to = <<c[3], c[4]>>
                  /\ draws[2].fn = "circle" /\ draws[2].center = <<c[1], c[2]>>
                  /\ draws[3].fn = "circle" /\ draws[3].center = <<c[3], c[4]>>
            /\ ~(args.draw /\ args.image.some) => draws = <<>>
            /\ \A image \in DistanceFrames, draw \in BOOLEAN :
                  LET r == FindDistanceResult(args.point1, args.point2, image, draw)
                  IN  r.distance = ret.distance /\ r.coords = ret.coords

C12_Witness ==
    /\ Returned("find_distance")
    /\ args.draw
    /\ args.image.some
    /\ Len(draws) = 3
    /\ draws[1].from # draws[1].to

\* C13: a find_hands call that passes the frame check asks for one skeleton
\* overlay per detected hand, in detection order, when draw is true and a
\* hand was found, and for none otherwise; the frame it returns is the
\* caller's frame with those overlays and nothing else, still in the caller's
\* colour order, the converted copy going to hands.process only.
C13_SkeletonOverlays ==
    Returned("find_hands") =>
        LET out == process_calls[1].output
            n   == IF out.some THEN Len(out.val) ELSE 0
        IN  /\ (args.draw /\ n > 0) =>
                  /\ Len(draws) = n
                  /\ \A k \in 1 .. n :
                        draws[k].fn = "draw_landmarks" /\ draws[k].hand = out.val[k]
            /\ ~(args.draw /\ n > 0) => (draws = <<>> /\ ret.image = args.image)
            /\ ret.image.ink = args.image.ink \o draws
            /\ ret.image.colour = args.image.colour
            /\ process_calls[1].image.colour = "RGB"

\* Two different hands are found and drawn, the first before the second.
C13_Witness ==
    /\ Returned("find_hands")
    /\ args.draw
    /\ Len(draws) = 2
    /\ draws[1].hand # draws[2].hand
    /\ draws[1].hand = results.multi_hand_landmarks.val[1]

\* C14: find_hands on a 3-dimensional frame with 3 channels raises nothing
\* and returns an image of the shape of its input, for both draw values,
\* whether hands are found or not.
C14_ValidFrameAccepted ==
    (op = "find_hands" /\ args.image.some /\ Len(args.image.shape) = 3 /\ args.image.shape[3] = 3) =>
        /\ err = ""
        /\ ret.image.some
        /\ ret.image.shape = args.image.shape

\* Zero hands are found, with drawing asked for.
C14_Witness ==
    /\ Returned("find_hands")
    /\ args.draw
    /\ ~process_calls[1].output.some
    /\ ret.image.shape = <<480, 640, 3>>

\* C15: find_position returns the same list for draw=True and draw=False;
\* with draw=True it asks for exactly one filled circle per returned point,
\* at that point's (x, y) and in the order of the points, and for none when
\* the list is empty; with draw=False it asks for none.
C15_DrawDoesNotChangeResult ==
    Returned("find_position") =>
        /\ ret.landmark_list =
              FindPositionReturn(results, args.image, args.hand_number, ~args.draw)
        /\ args.draw =>
              /\ Len(draws) = Len(ret.landmark_list)
              /\ \A k \in 1 .. Len(draws) :
                    /\ draws[k].fn = "circle"
                    /\ draws[k].center = <<ret.landmark_list[k][2], ret.landmark_list[k][3]>>
        /\ ~args.draw => draws = <<>>

C15_Witness ==
    /\ Returned("find_position")
    /\ args.draw
    /\ Len(draws) = 21
    /\ draws[2].center # draws[3].center

\* d is the value nearest to sqrt(n) in units of 1/SqrtScale.
IsRoundedRoot(d, n) ==
    /\ d >= 0
    /\ (2 * d + 1) * (2 * d + 1) > 4 * n * SqrtScale * SqrtScale
    /\ d > 0 => (2 * d - 1) * (2 * d - 1) < 4 * n * SqrtScale * SqrtScale

\* C16: whatever the detector has cached, find_distance leaves the cache as
\* it found it, and for well-formed points its coordinate list and distance
\* are the ones the two points alone determine.
C16_DistanceIgnoresDetector ==
    op = "find_distance" =>
        /\ results = before
        /\ (err = "" /\ WellFormed(args.point1) /\ WellFormed(args.point2)) =>
              LET p == Plain(args.point1)
                  q == Plain(args.point2)
              IN  /\ ret.coords = <<p[1], p[2], q[1], q[2]>>
                  /\ IsRoundedRoot(ret.distance,
                                   (q[1] - p[1]) * (q[1] - p[1]) + (q[2] - p[2]) * (q[2] - p[2]))

\* A distance is asked for while two hands are cached.
C16_Witness ==
    /\ Returned("find_distance")
    /\ NumHands(results) = 2
    /\ results = before
    /\ ret.distance = 5 * SqrtScale

\* C17: a call on one detector leaves the cached result of the other as it
\* was, so what find_position of the other returns is the same before and
\* after, in every interleaving of calls on the two.
C17_InstancesIndependent ==
    /\ op \in {"find_hands", "find_position"} => peer = peer_before
    /\ op \in {"peer.find_hands", "peer.find_position"} => results = before
    /\ op = "peer.find_hands" =>
          \A image \in PairFrames, hand_number \in PairHandNumbers :
              /\ FindPositionError(results, image, hand_number)
                    = FindPositionError(before, image, hand_number)
              /\ FindPositionError(before, image, hand_number) = "" =>
                    FindPositionResult(results, image, hand_number)
                        = FindPositionResult(before, image, hand_number)

\* The second detector has just cached two hands while the first holds one.
C17_Witness ==
    /\ Returned("peer.find_hands")
    /\ NumHands(results) = 1
    /\ NumHands(peer) = 2
    /\ NumHands(peer_before) = 0

\* C18: a find_hands call that raises for its frame has used hands.process
\* not at all, has asked for no drawing, has returned nothing and has left
\* the cached result as it found it.
C18_RejectedCallIsAtomic ==
    (op = "find_hands" /\ err # "") =>
        /\ process_calls = <<>>
        /\ draws = <<>>
        /\ ret = NoRet
        /\ results = before

\* A frame is rejected while hands are cached.
C18_Witness ==
    /\ op = "find_hands"
    /\ err # ""
    /\ args.draw
    /\ NumHands(results) > 0

\* C19: find_position scales by the height and width of the image it is
\* given, whatever frame the detection was made on: for a hand_number in
\* 0 .. NumHands - 1 and any 3-dimensional image it raises nothing, and entry
\* i is landmark i scaled by that image's own width and height.
C19_ScaledByOwnFrame ==
    (op = "find_position" /\ 0 <= args.hand_number /\ args.hand_number < NumHands(results)
        /\ args.image.some /\ Len(args.image.shape) = 3) =>
        LET hand == results.multi_hand_landmarks.val[args.hand_number + 1]
        IN  /\ err = ""
            /\ \A i \in 0 .. 20 :
                  /\ ret.landmark_list[i + 1][2] = FloorPixel(hand[i][1], args.image.shape[2])
                  /\ ret.landmark_list[i + 1][3] = FloorPixel(hand[i][2], args.image.shape[1])

\* The detection was made on a 640 x 480 frame and the positions are asked
\* for on a 5 x 3 one: the last landmark lands inside the small frame.
C19_Witness ==
    /\ Returned("find_position")
    /\ last_frame.some
    /\ last_frame.shape = <<480, 640, 3>>
    /\ args.hand_number = 0
    /\ Len(ret.landmark_list) = 21
    /\ args.image.shape = <<3, 5, 3>>
    /\ \A k \in 1 .. 21 : ret.landmark_list[k][2] <= 5 /\ ret.landmark_list[k][3] <= 3
    /\ \E k \in 1 .. 21 : ret.landmark_list[k][2] > 0

\* C20: find_position leaves the cached result as it found it, so the same
\* call made again, with either draw value, raises or returns the same.
C20_FindPositionReadOnly ==
    op = "find_position" =>
        /\ results = before
        /\ FindPositionError(results, args.image, args.hand_number) = err
        /\ err = "" =>
              \A draw \in BOOLEAN :
                  FindPositionReturn(results, args.image, args.hand_number, draw)
                      = ret.landmark_list

C20_Witness ==
    /\ Returned("find_position")
    /\ args.hand_number = 1
    /\ Len(ret.landmark_list) = 21
    /\ results = before

====
